---------------------------- MODULE Spec2Model ----------------------------
(***************************************************************************)
(* AccessManager: administrative override sessions guarded by a presence   *)
(* watchdog (src/access_manager.py).                                       *)
(*                                                                         *)
(* Conventions of the model                                                *)
(*  - A Python str is a sequence of one-character strings, so that strip,  *)
(*    lower and startswith are computed character by character.            *)
(*  - An Optional value is a set with at most one element: None is {} and  *)
(*    a present value x is {x}.                                            *)
(*  - time.monotonic() is the variable now, in whole ticks; the float      *)
(*    seconds of the program are whole ticks here.                         *)
(*  - call, result and pre record the most recent API call, what it        *)
(*    returned or raised, and the session record and clock at its entry.   *)
(*  - threads is used only by the two-thread behaviours (ConcSpec); the    *)
(*    sequential behaviours leave it alone.                                *)
(***************************************************************************)
EXTENDS Integers, Sequences, FiniteSets, TLC

VARIABLES cfg, active_session, active_badge, last_presence_time,
          now, call, result, pre, threads

vars == <<cfg, active_session, active_badge, last_presence_time,
          now, call, result, pre, threads>>

session == <<active_session, active_badge, last_presence_time>>

-----------------------------------------------------------------------------
(* Bounds *)

MaxTime == 4

MaxTimeout == 2

Horizon == MaxTime - MaxTimeout - 1

\* The clock bound of the two-thread behaviours.
ConcMaxTime == 2

Threads == {"A", "B"}

-----------------------------------------------------------------------------
(* Optional values and results *)

None == {}

Some(x) == {x}

\* What a call produced.  Each shape has its own field names, so that results
\* of different calls are never compared field against field.
Returned(v) == [returned |-> v]

ReturnedNone == [returned_none |-> TRUE]

Raised(e) == [raised |-> e]

PulseResult(success, message) == [success |-> success, message |-> message]

TelemetryResult(packet) == [telemetry |-> packet]

-----------------------------------------------------------------------------
(* Strings *)

Whitespace == {" ", "\t", "\n"}

UpperChars ==
    <<"A", "B", "C", "D", "E", "F", "G", "H", "I", "J", "K", "L", "M",
      "N", "O", "P", "Q", "R", "S", "T", "U", "V", "W", "X", "Y", "Z">>

LowerChars ==
    <<"a", "b", "c", "d", "e", "f", "g", "h", "i", "j", "k", "l", "m",
      "n", "o", "p", "q", "r", "s", "t", "u", "v", "w", "x", "y", "z">>

LowerChar(c) ==
    IF \E k \in 1..Len(UpperChars) : UpperChars[k] = c
    THEN LowerChars[CHOOSE k \in 1..Len(UpperChars) : UpperChars[k] = c]
    ELSE c

lower(s) == [k \in 1..Len(s) |-> LowerChar(s[k])]

RECURSIVE lstrip(_)
lstrip(s) ==
    IF s = <<>> THEN s
    ELSE IF Head(s) \in Whitespace THEN lstrip(Tail(s)) ELSE s

RECURSIVE rstrip(_)
rstrip(s) ==
    IF s = <<>> THEN s
    ELSE IF s[Len(s)] \in Whitespace THEN rstrip(SubSeq(s, 1, Len(s) - 1)) ELSE s

strip(s) == rstrip(lstrip(s))

startswith(s, prefix) ==
    /\ Len(s) >= Len(prefix)
    /\ SubSeq(s, 1, Len(prefix)) = prefix

PREFIX_ARCH == <<"A", "R", "C", "H">>

PREFIX_MAINT == <<"M", "A", "I", "N", "T">>

BADGE_OP ==
    <<"O", "P", "-", "7", "7", "2", "1">>

BADGE_MAINT ==
    <<"M", "A", "I", "N", "T", "-", "9", "0", "0">>

BADGE_ARCH ==
    <<"A", "R", "C", "H", "-", "0", "0", "1">>

BADGE_GHOST ==
    <<"G", "H", "O", "S", "T", "-", "0", "0", "7">>

BADGE_ARCH_LOWER ==
    <<"a", "r", "c", "h", "-", "0", "0", "1">>

BADGE_ARCH_PADDED ==
    <<" ", "A", "R", "C", "H", "-", "0", "0", "1", "\n">>

EMPTY_STR == <<>>

INTENT_START ==
    <<"s", "t", "a", "r", "t", " ", "m", "a", "i", "n", "t", "e", "n", "a", "n", "c", "e">>

INTENT_ADMIN ==
    <<"a", "d", "m", "i", "n", " ", "o", "v", "e", "r", "r", "i", "d", "e">>

INTENT_CHECK ==
    <<"s", "y", "s", "t", "e", "m", " ", "c", "h", "e", "c", "k">>

INTENT_START_UPPER ==
    <<"S", "T", "A", "R", "T", " ", "M", "A", "I", "N", "T", "E", "N", "A", "N", "C", "E">>

INTENT_ADMIN_PADDED ==
    <<"\t", "A", "d", "m", "i", "n", " ", "O", "v", "e", "r", "r", "i", "d", "e", " ">>

INTENT_DOORS ==
    <<"o", "p", "e", "n", " ", "b", "a", "y", " ", "d", "o", "o", "r", "s">>

-----------------------------------------------------------------------------
(* Configuration and clearance tiers *)

\* speed_limit_scale and stiffness_boost are kept in tenths (0.5 is 5).
ClearanceLevel(name, tier_id, speed_limit_scale, stiffness_boost) ==
    [name |-> name, tier_id |-> tier_id,
     speed_limit_scale |-> speed_limit_scale,
     stiffness_boost |-> stiffness_boost]

TIER_1 == ClearanceLevel("Standard", 1, 5, 10)

TIER_2 == ClearanceLevel("Maintenance", 2, 8, 15)

TIER_3 == ClearanceLevel("Admin", 3, 10, 20)

\* The default auth_cache of AccessConfig.
DefaultAuthCache ==
    (BADGE_OP :> "Standard Operator")
        @@ (BADGE_MAINT :> "Maintenance Tech")
        @@ (BADGE_ARCH :> "Senior Architect")

\* An injected directory whose role labels disagree with the id prefixes.
InjectedAuthCache ==
    (BADGE_ARCH :> "Standard Operator")
        @@ (BADGE_GHOST :> "Senior Architect")

AuthCaches == {DefaultAuthCache, InjectedAuthCache}

\* MAINTENANCE_TIMEOUT_SEC is injectable; the model draws it from 1..MaxTimeout.
AccessConfig(timeout, auth_cache) ==
    [MAINTENANCE_TIMEOUT_SEC |-> timeout,
     HEARTBEAT_THRESHOLD_SEC |-> 1,
     auth_cache |-> auth_cache]

Configs == {AccessConfig(t, d) : t \in 1..MaxTimeout, d \in AuthCaches}

valid_intents == <<INTENT_START, INTENT_ADMIN, INTENT_CHECK>>

InList(x, list) == \E k \in 1..Len(list) : list[k] = x

-----------------------------------------------------------------------------
(* Inputs *)

BadgeArgs ==
    {None} \cup {Some(s) : s \in {BADGE_OP, BADGE_MAINT, BADGE_GHOST, EMPTY_STR,
                                  BADGE_ARCH_LOWER, BADGE_ARCH_PADDED}}

IntentArgs ==
    {None} \cup {Some(s) : s \in {INTENT_START_UPPER, INTENT_ADMIN_PADDED,
                                  INTENT_DOORS, EMPTY_STR}}

Unwrap(opt) == CHOOSE x \in opt : TRUE

\* The session record and the clock as an operation finds them.
Snapshot ==
    [active_session |-> active_session, active_badge |-> active_badge,
     last_presence_time |-> last_presence_time, now |-> now]

-----------------------------------------------------------------------------
(* AccessManager *)

Init ==
    /\ cfg \in Configs
    /\ active_session = None
    /\ active_badge = None
    /\ last_presence_time = 0
    /\ now \in 0..1
    /\ call = [op |-> "__init__"]
    /\ result = ReturnedNone
    /\ pre = [active_session |-> None, active_badge |-> None,
              last_presence_time |-> 0, now |-> now]
    /\ threads = [t \in Threads |->
                    [pc |-> "idle", clean_badge |-> <<>>,
                     operator_present |-> FALSE, in_pulse |-> FALSE,
                     current_time |-> 0, time_left |-> 0, tier |-> "",
                     stale |-> FALSE, ret |-> ReturnedNone]]

is_override_active == active_session # None

TierForBadge_ByRoleLabel(clean_badge) ==
    IF clean_badge \notin DOMAIN cfg.auth_cache THEN TIER_1
    ELSE IF cfg.auth_cache[clean_badge] = "Senior Architect" THEN TIER_3
    ELSE IF cfg.auth_cache[clean_badge] = "Maintenance Tech" THEN TIER_2
    ELSE TIER_1

\* Step 3 of request_override: the tier follows the id prefix.
TierForBadge(clean_badge) ==
    IF startswith(clean_badge, PREFIX_ARCH) THEN TIER_3
    ELSE IF startswith(clean_badge, PREFIX_MAINT) THEN TIER_2
    ELSE TIER_1

\* Normalisation calls .strip() on both arguments: None has no such attribute,
\* so the exception leaves before anything is written.
RaiseAttributeError_Swallowed ==
    /\ result' = Returned(FALSE)
    /\ UNCHANGED session

RaiseAttributeError ==
    /\ result' = Raised("AttributeError")
    /\ UNCHANGED session

IsKnownBadge_IgnoreCase(clean_badge) ==
    \E key \in DOMAIN cfg.auth_cache : lower(key) = lower(clean_badge)

IsKnownBadge(clean_badge) == clean_badge \in DOMAIN cfg.auth_cache

IsValidIntent(clean_intent) == InList(clean_intent, valid_intents)

DenyBadge_SessionDropped ==
    /\ result' = Returned(FALSE)
    /\ active_session' = None
    /\ active_badge' = None
    /\ last_presence_time' = 0

DenyBadge ==
    /\ result' = Returned(FALSE)
    /\ UNCHANGED session

DenyIntent_SessionDropped ==
    /\ result' = Returned(FALSE)
    /\ active_session' = None
    /\ active_badge' = None
    /\ last_presence_time' = 0

DenyIntent ==
    /\ result' = Returned(FALSE)
    /\ UNCHANGED session

Grant_UpgradeOnly(clean_badge) ==
    /\ IF /\ active_session # None
          /\ Unwrap(active_session).tier_id > TierForBadge(clean_badge).tier_id
       THEN UNCHANGED <<active_session, active_badge>>
       ELSE /\ active_session' = Some(TierForBadge(clean_badge))
            /\ active_badge' = Some(clean_badge)
    /\ last_presence_time' = now
    /\ result' = Returned(TRUE)

Grant_NotStamped(clean_badge) ==
    /\ active_session' = Some(TierForBadge(clean_badge))
    /\ active_badge' = Some(clean_badge)
    /\ UNCHANGED last_presence_time
    /\ result' = Returned(TRUE)

Grant(clean_badge) ==
    /\ active_session' = Some(TierForBadge(clean_badge))
    /\ active_badge' = Some(clean_badge)
    /\ last_presence_time' = now
    /\ result' = Returned(TRUE)

request_override(badge_id, voice_intent) ==
    /\ call' = [op |-> "request_override", badge_id |-> badge_id,
                voice_intent |-> voice_intent]
    /\ pre' = Snapshot
    /\ UNCHANGED <<threads, cfg, now>>
    /\ IF badge_id = None \/ voice_intent = None
       THEN RaiseAttributeError
       ELSE LET clean_badge == strip(Unwrap(badge_id))
                clean_intent == lower(strip(Unwrap(voice_intent)))
            IN  IF ~IsKnownBadge(clean_badge) THEN DenyBadge
                ELSE IF ~IsValidIntent(clean_intent) THEN DenyIntent
                ELSE Grant(clean_badge)

SecureLogoutEffect_SessionKept ==
    /\ active_badge' = None
    /\ last_presence_time' = 0
    /\ UNCHANGED active_session

SecureLogoutEffect_BadgeKept ==
    /\ active_session' = None
    /\ last_presence_time' = 0
    /\ UNCHANGED active_badge

\* secure_logout's three assignments; maintenance_pulse calls it on expiry.
SecureLogoutEffect ==
    /\ active_session' = None
    /\ active_badge' = None
    /\ last_presence_time' = 0

MSG_STANDBY == "STANDBY: No active override."

MSG_EMERGENCY == "EMERGENCY: Watchdog timeout. Reverting to Safe Mode."

MsgActive(remaining) ==
    "ACTIVE: Session confirmed. Timeout in " \o ToString(remaining) \o "s"

RefreshedPresence_Always(operator_present) == now

\* "if operator_present: self._last_presence_time = current_time"
RefreshedPresence(operator_present) ==
    IF operator_present THEN now ELSE last_presence_time

\* elapsed is taken after the refresh.
ElapsedSince_BeforeRefresh(operator_present) == now - last_presence_time

ElapsedSince(operator_present) == now - RefreshedPresence(operator_present)

Expired_Inclusive(elapsed) == elapsed >= cfg.MAINTENANCE_TIMEOUT_SEC

Expired_Late(elapsed) == elapsed > cfg.MAINTENANCE_TIMEOUT_SEC + 1

Expired(elapsed) == elapsed > cfg.MAINTENANCE_TIMEOUT_SEC

StandbyPulse_Stamped ==
    /\ result' = PulseResult(TRUE, MSG_STANDBY)
    /\ last_presence_time' = now
    /\ UNCHANGED <<active_session, active_badge>>

StandbyPulse ==
    /\ result' = PulseResult(TRUE, MSG_STANDBY)
    /\ UNCHANGED session

maintenance_pulse(operator_present) ==
    /\ call' = [op |-> "maintenance_pulse", operator_present |-> operator_present]
    /\ pre' = Snapshot
    /\ UNCHANGED <<threads, cfg, now>>
    /\ IF ~is_override_active
       THEN StandbyPulse
       ELSE LET elapsed == ElapsedSince(operator_present)
            IN  IF Expired(elapsed)
                THEN /\ SecureLogoutEffect
                     /\ result' = PulseResult(FALSE, MSG_EMERGENCY)
                ELSE /\ last_presence_time' = RefreshedPresence(operator_present)
                     /\ UNCHANGED <<active_session, active_badge>>
                     /\ result' = PulseResult(TRUE,
                            MsgActive(cfg.MAINTENANCE_TIMEOUT_SEC - elapsed))

Max(a, b) == IF a >= b THEN a ELSE b

Telemetry ==
    IF ~is_override_active
    THEN [active |-> FALSE, msg |-> "STANDBY", time_left |-> 0]
    ELSE LET elapsed == now - last_presence_time
             time_left == Max(0, cfg.MAINTENANCE_TIMEOUT_SEC - elapsed)
         IN  [active |-> TRUE,
              tier |-> IF active_session # None
                       THEN Unwrap(active_session).name ELSE "N/A",
              badge |-> active_badge,
              time_left |-> time_left]

get_telemetry_Refreshing ==
    /\ call' = [op |-> "get_telemetry"]
    /\ pre' = Snapshot
    /\ result' = TelemetryResult(Telemetry)
    /\ last_presence_time' = IF is_override_active THEN now ELSE last_presence_time
    /\ UNCHANGED <<threads, cfg, now, active_session, active_badge>>

get_telemetry ==
    /\ call' = [op |-> "get_telemetry"]
    /\ pre' = Snapshot
    /\ result' = TelemetryResult(Telemetry)
    /\ UNCHANGED <<threads, cfg, now, session>>

secure_logout ==
    /\ call' = [op |-> "secure_logout"]
    /\ pre' = Snapshot
    /\ SecureLogoutEffect
    /\ result' = ReturnedNone
    /\ UNCHANGED <<threads, cfg, now>>

\* The last_presence_time property setter ("for simulation/testing purposes").
set_last_presence_time(value) ==
    /\ call' = [op |-> "last_presence_time.setter", value |-> value]
    /\ pre' = Snapshot
    /\ last_presence_time' = value
    /\ result' = ReturnedNone
    /\ UNCHANGED <<threads, cfg, now, active_session, active_badge>>

\* time.monotonic() never goes back; it may jump by any amount between calls.
Tick ==
    /\ now < MaxTime
    /\ now' \in (now + 1)..MaxTime
    /\ UNCHANGED <<threads, cfg, session, call, result, pre>>

Next ==
    \/ \E badge_id \in BadgeArgs, voice_intent \in IntentArgs :
          request_override(badge_id, voice_intent)
    \/ \E operator_present \in BOOLEAN : maintenance_pulse(operator_present)
    \/ get_telemetry
    \/ secure_logout
    \/ \E value \in 0..MaxTime : set_last_presence_time(value)
    \/ Tick

Spec == Init /\ [][Next]_vars

\* The clock of the model stops at MaxTime.  So that every session has room to
\* expire before the clock stops, the behaviours checked for liveness write
\* timestamps only up to Horizon; the clock keeps advancing and the timer loop
\* keeps calling maintenance_pulse(False).
LiveNext == Next /\ last_presence_time' <= Horizon

LiveSpec ==
    /\ Init
    /\ [][LiveNext]_vars
    /\ WF_vars(Tick)
    /\ WF_vars(maintenance_pulse(FALSE))

-----------------------------------------------------------------------------
(* The same methods called from two threads.  The source takes no lock, so  *)
(* each statement that reads or writes the session record is a step of its  *)
(* own and the steps of the two calls interleave.  threads[t] holds the     *)
(* position and the locals of the call thread t is in, and the result of    *)
(* its last finished call.                                                  *)

Idle ==
    [pc |-> "idle", clean_badge |-> <<>>, operator_present |-> FALSE,
     in_pulse |-> FALSE, current_time |-> 0, time_left |-> 0, tier |-> "",
     stale |-> FALSE, ret |-> ReturnedNone]

ConcInit ==
    /\ Init
    /\ cfg = AccessConfig(1, DefaultAuthCache)
    /\ now = 0

At(t, label) == threads[t].pc = label

Goto(t, rec) ==
    /\ threads' = [threads EXCEPT ![t] = rec]
    /\ UNCHANGED <<cfg, now, call, result, pre>>

Return(t, value) == Goto(t, [Idle EXCEPT !.ret = value, !.stale = threads[t].stale])

\* request_override with a known badge and a valid intent: lines 102-114 read
\* only the arguments and the immutable configuration.
ro_call(t, key) ==
    /\ At(t, "idle")
    /\ IsKnownBadge(strip(key))
    /\ IsValidIntent(lower(strip(INTENT_START_UPPER)))
    /\ Goto(t, [Idle EXCEPT !.pc = "ro_session", !.clean_badge = strip(key)])
    /\ UNCHANGED session

ro_set_session(t) ==
    /\ At(t, "ro_session")
    /\ active_session' = Some(TierForBadge(threads[t].clean_badge))
    /\ UNCHANGED <<active_badge, last_presence_time>>
    /\ Goto(t, [threads[t] EXCEPT !.pc = "ro_badge"])

ro_set_badge(t) ==
    /\ At(t, "ro_badge")
    /\ active_badge' = Some(threads[t].clean_badge)
    /\ UNCHANGED <<active_session, last_presence_time>>
    /\ Goto(t, [threads[t] EXCEPT !.pc = "ro_time"])

ro_set_time(t) ==
    /\ At(t, "ro_time")
    /\ last_presence_time' = now
    /\ UNCHANGED <<active_session, active_badge>>
    /\ Goto(t, [threads[t] EXCEPT !.pc = "ro_log"])

\* LOGGER.info reads self._active_session.name before the return.
ro_log(t) ==
    /\ At(t, "ro_log")
    /\ UNCHANGED session
    /\ IF active_session = None
       THEN Return(t, Raised("AttributeError"))
       ELSE Return(t, Returned(TRUE))

mp_call(t, operator_present) ==
    /\ At(t, "idle")
    /\ UNCHANGED session
    /\ IF ~is_override_active
       THEN Return(t, PulseResult(TRUE, MSG_STANDBY))
       ELSE Goto(t, [Idle EXCEPT !.pc = "mp_refresh",
                                 !.operator_present = operator_present])

mp_refresh(t) ==
    /\ At(t, "mp_refresh")
    /\ last_presence_time' = RefreshedPresence(threads[t].operator_present)
    /\ UNCHANGED <<active_session, active_badge>>
    /\ Goto(t, [threads[t] EXCEPT !.pc = "mp_elapsed", !.current_time = now])

mp_elapsed(t) ==
    /\ At(t, "mp_elapsed")
    /\ UNCHANGED session
    /\ LET elapsed == threads[t].current_time - last_presence_time
       IN  IF Expired(elapsed)
           THEN Goto(t, [threads[t] EXCEPT !.pc = "sl_session",
                                           !.in_pulse = TRUE,
                                           !.stale = (active_session = None)])
           ELSE Return(t, PulseResult(TRUE,
                    MsgActive(cfg.MAINTENANCE_TIMEOUT_SEC - elapsed)))

sl_call(t) ==
    /\ At(t, "idle")
    /\ UNCHANGED session
    /\ Goto(t, [Idle EXCEPT !.pc = "sl_session"])

sl_clear_session(t) ==
    /\ At(t, "sl_session")
    /\ active_session' = None
    /\ UNCHANGED <<active_badge, last_presence_time>>
    /\ Goto(t, [threads[t] EXCEPT !.pc = "sl_badge"])

sl_clear_badge(t) ==
    /\ At(t, "sl_badge")
    /\ active_badge' = None
    /\ UNCHANGED <<active_session, last_presence_time>>
    /\ Goto(t, [threads[t] EXCEPT !.pc = "sl_time"])

sl_clear_time(t) ==
    /\ At(t, "sl_time")
    /\ last_presence_time' = 0
    /\ UNCHANGED <<active_session, active_badge>>
    /\ IF threads[t].in_pulse
       THEN Return(t, PulseResult(FALSE, MSG_EMERGENCY))
       ELSE Return(t, ReturnedNone)

gt_call(t) ==
    /\ At(t, "idle")
    /\ UNCHANGED session
    /\ IF ~is_override_active
       THEN Return(t, TelemetryResult(
                [active |-> FALSE, msg |-> "STANDBY", time_left |-> 0]))
       ELSE Goto(t, [Idle EXCEPT !.pc = "gt_elapsed"])

gt_elapsed(t) ==
    /\ At(t, "gt_elapsed")
    /\ UNCHANGED session
    /\ LET elapsed == now - last_presence_time
       IN  Goto(t, [threads[t] EXCEPT
                      !.pc = "gt_test",
                      !.time_left = Max(0, cfg.MAINTENANCE_TIMEOUT_SEC - elapsed)])

\* "self._active_session.name if self._active_session else 'N/A'": the test
\* and the attribute read are two reads of the field.
gt_test(t) ==
    /\ At(t, "gt_test")
    /\ UNCHANGED session
    /\ IF active_session # None
       THEN Goto(t, [threads[t] EXCEPT !.pc = "gt_name"])
       ELSE Goto(t, [threads[t] EXCEPT !.pc = "gt_badge", !.tier = "N/A"])

gt_name(t) ==
    /\ At(t, "gt_name")
    /\ UNCHANGED session
    /\ IF active_session = None
       THEN Return(t, Raised("AttributeError"))
       ELSE Goto(t, [threads[t] EXCEPT !.pc = "gt_badge",
                                       !.tier = Unwrap(active_session).name])

gt_badge(t) ==
    /\ At(t, "gt_badge")
    /\ UNCHANGED session
    /\ Return(t, TelemetryResult(
           [active |-> TRUE, tier |-> threads[t].tier,
            badge |-> active_badge, time_left |-> threads[t].time_left]))

ConcTick ==
    /\ now < ConcMaxTime
    /\ Tick

ConcNext ==
    \/ \E t \in Threads :
          \/ \E key \in {BADGE_OP, BADGE_ARCH_PADDED} : ro_call(t, key)
          \/ ro_set_session(t)
          \/ ro_set_badge(t)
          \/ ro_set_time(t)
          \/ ro_log(t)
          \/ \E operator_present \in BOOLEAN : mp_call(t, operator_present)
          \/ mp_refresh(t)
          \/ mp_elapsed(t)
          \/ sl_call(t)
          \/ sl_clear_session(t)
          \/ sl_clear_badge(t)
          \/ sl_clear_time(t)
          \/ gt_call(t)
          \/ gt_elapsed(t)
          \/ gt_test(t)
          \/ gt_name(t)
          \/ gt_badge(t)
    \/ ConcTick

ConcSpec == ConcInit /\ [][ConcNext]_vars

-----------------------------------------------------------------------------
(* Vocabulary of the properties *)

PreSession == <<pre.active_session, pre.active_badge, pre.last_presence_time>>

SessionUntouched == session = PreSession

Standby == active_session = None

IsRequest == call.op = "request_override"

IsPulse == call.op = "maintenance_pulse"

ArgsPresent == call.badge_id # None /\ call.voice_intent # None

AllWhitespace(s) == \A k \in 1..Len(s) : s[k] \in Whitespace

\* t is s without its leading and trailing whitespace.
TrimsTo(s, t) ==
    /\ t = <<>> \/ (t[1] \notin Whitespace /\ t[Len(t)] \notin Whitespace)
    /\ \E i \in 0..Len(s) :
          /\ i + Len(t) <= Len(s)
          /\ AllWhitespace(SubSeq(s, 1, i))
          /\ SubSeq(s, i + 1, i + Len(t)) = t
          /\ AllWhitespace(SubSeq(s, i + Len(t) + 1, Len(s)))

SameIgnoringCase(s, phrase) ==
    /\ Len(s) = Len(phrase)
    /\ \A k \in 1..Len(s) :
          \/ s[k] = phrase[k]
          \/ \E n \in 1..Len(UpperChars) :
                s[k] = UpperChars[n] /\ phrase[k] = LowerChars[n]

RecognizedPhrases == {INTENT_START, INTENT_ADMIN, INTENT_CHECK}

BadgeIsKey(badge) == \E key \in DOMAIN cfg.auth_cache : TrimsTo(badge, key)

IntentRecognized(intent) ==
    \E phrase \in RecognizedPhrases :
        \E i \in 1..Len(intent) :
            /\ i + Len(phrase) - 1 <= Len(intent)
            /\ LET body == SubSeq(intent, i, i + Len(phrase) - 1)
               IN  TrimsTo(intent, body) /\ SameIgnoringCase(body, phrase)

TwoFactor ==
    /\ BadgeIsKey(Unwrap(call.badge_id))
    /\ IntentRecognized(Unwrap(call.voice_intent))

PulseStillActive == result.success

PulseMessage == result.message

PreElapsed == pre.now - pre.last_presence_time

-----------------------------------------------------------------------------
(* C1: a denied request_override (trimmed badge not a key of the directory, *)
(* or known badge with an intent outside the recognized set) returns False  *)
(* and leaves active_session, active_badge and last_presence_time as they   *)
(* were at the call, whatever the prior state.                              *)
C1_DeniedLeavesSessionUntouched ==
    (IsRequest /\ ArgsPresent /\ ~TwoFactor)
        => (result = Returned(FALSE) /\ SessionUntouched)

C1_Witness ==
    /\ IsRequest /\ ArgsPresent
    /\ BadgeIsKey(Unwrap(call.badge_id))
    /\ ~IntentRecognized(Unwrap(call.voice_intent))
    /\ pre.active_session # None
    /\ result = Returned(FALSE)

(* C2: a request_override with a known badge and a recognized intent returns *)
(* True and replaces the session whatever was active: active_session is the  *)
(* tier of the new badge, active_badge the trimmed id, last_presence_time    *)
(* the clock at the call.                                                    *)
C2_GrantOverwritesSession ==
    (IsRequest /\ ArgsPresent /\ TwoFactor)
        => /\ result = Returned(TRUE)
           /\ \E key \in DOMAIN cfg.auth_cache :
                 /\ TrimsTo(Unwrap(call.badge_id), key)
                 /\ active_badge = Some(key)
                 /\ active_session = Some(TierForBadge(key))
           /\ last_presence_time = pre.now

\* A Standard badge is granted at a later time over an active Admin session.
C2_Witness ==
    /\ IsRequest /\ result = Returned(TRUE)
    /\ pre.active_session = Some(TIER_3)
    /\ active_session = Some(TIER_1)
    /\ pre.last_presence_time < pre.now

(* C3: for non-None arguments request_override never raises and returns True *)
(* exactly when the trimmed badge is a case-sensitive key of the directory   *)
(* and the trimmed, lower-cased intent is one of the three phrases; the      *)
(* session state and the clock play no part.                                 *)
C3_GrantIsTwoFactor ==
    (IsRequest /\ ArgsPresent)
        => (result = Returned(TwoFactor))

C3_Witness ==
    /\ IsRequest
    /\ call.badge_id = Some(BADGE_ARCH_PADDED)
    /\ call.voice_intent = Some(INTENT_ADMIN_PADDED)
    /\ result = Returned(TRUE)

(* C4: request_override with a None badge or a None intent raises (it does   *)
(* not return False) and the session record is as it was at the call, also   *)
(* when a session was active.                                                *)
C4_NoneArgumentRaises ==
    (IsRequest /\ ~ArgsPresent)
        => (result = Raised("AttributeError") /\ SessionUntouched)

C4_Witness ==
    /\ IsRequest
    /\ call.badge_id # None /\ call.voice_intent = None
    /\ pre.active_session # None
    /\ result = Raised("AttributeError")
    /\ active_session = pre.active_session

(* C5: a maintenance_pulse(False) on an active session keeps the session and *)
(* returns True when the elapsed time is at most the timeout, and logs out   *)
(* and returns False when it is greater.                                     *)
C5_StrictExpiry ==
    (IsPulse /\ ~call.operator_present /\ pre.active_session # None)
        => /\ (PreElapsed <= cfg.MAINTENANCE_TIMEOUT_SEC)
                => (PulseStillActive /\ SessionUntouched)
           /\ (PreElapsed > cfg.MAINTENANCE_TIMEOUT_SEC)
                => (~PulseStillActive /\ Standby)

C5_Witness ==
    /\ IsPulse /\ ~call.operator_present
    /\ pre.active_session # None
    /\ PreElapsed = cfg.MAINTENANCE_TIMEOUT_SEC
    /\ PulseStillActive
    /\ active_session # None


(* C6: once more than the timeout has elapsed since the last confirmed      *)
(* presence of an active session, the next maintenance_pulse, for either     *)
(* value of operator_present, returns False and leaves the system in         *)
(* STANDBY.                                                                  *)
C6_Original_AnyPulseReverts ==
    (IsPulse /\ pre.active_session # None
             /\ PreElapsed > cfg.MAINTENANCE_TIMEOUT_SEC)
        => (~PulseStillActive /\ Standby)

(* C6 as amended: in that situation a maintenance_pulse(False) returns False *)
(* and leaves STANDBY, while a maintenance_pulse(True) counts as the         *)
(* presence confirmation: it restarts the window and keeps the session.      *)
C6_AbsentPulseReverts ==
    (IsPulse /\ pre.active_session # None
             /\ PreElapsed > cfg.MAINTENANCE_TIMEOUT_SEC)
        => IF call.operator_present
           THEN /\ PulseStillActive
                /\ active_session = pre.active_session
                /\ last_presence_time = pre.now
           ELSE /\ ~PulseStillActive
                /\ Standby

C6_Witness ==
    /\ IsPulse /\ ~call.operator_present
    /\ pre.active_session # None
    /\ PreElapsed = cfg.MAINTENANCE_TIMEOUT_SEC + 1
    /\ ~PulseStillActive
    /\ Standby

(* C7: if from some point on no presence is confirmed, no override is        *)
(* granted and the timestamp is not written through the test hook, then,     *)
(* with the clock advancing and maintenance_pulse being called, the system   *)
(* ends up in STANDBY.                                                       *)
RefreshCall ==
    \/ IsRequest /\ result = Returned(TRUE)
    \/ IsPulse /\ call.operator_present /\ pre.active_session # None
    \/ call.op = "last_presence_time.setter"

FailedPulse == IsPulse /\ ~PulseStillActive

C9_PresencePulseRefreshes ==
    (IsPulse /\ call.operator_present /\ pre.active_session # None
             /\ cfg.MAINTENANCE_TIMEOUT_SEC > 0)
        => /\ last_presence_time = pre.now
           /\ result = PulseResult(TRUE, MsgActive(cfg.MAINTENANCE_TIMEOUT_SEC))
           /\ active_session = pre.active_session
           /\ active_badge = pre.active_badge

C9_Witness ==
    /\ IsPulse /\ call.operator_present
    /\ pre.active_session # None
    /\ PreElapsed > cfg.MAINTENANCE_TIMEOUT_SEC
    /\ PulseStillActive
    /\ active_session = pre.active_session
    /\ last_presence_time = pre.now

(* C10: maintenance_pulse in STANDBY returns (True, STANDBY message) for     *)
(* either value of operator_present and changes no session field:            *)
(* active_session and active_badge stay None and last_presence_time is not   *)
(* refreshed.                                                                *)
C10_StandbyPulseNoOp ==
    (IsPulse /\ pre.active_session = None)
        => /\ result = PulseResult(TRUE, MSG_STANDBY)
           /\ SessionUntouched
           /\ active_session = None
           /\ active_badge = None

C10_Witness ==
    /\ IsPulse /\ call.operator_present
    /\ pre.active_session = None
    /\ pre.now > 0
    /\ last_presence_time = 0
    /\ PulseMessage = MSG_STANDBY

IsLogout == call.op = "secure_logout"

IsTelemetry == call.op = "get_telemetry"

(* C11: secure_logout completes without error from any state and leaves     *)
(* active_session None, active_badge None and last_presence_time 0 (so a     *)
(* second call yields the same state as the first), and a call in STANDBY    *)
(* changes nothing.                                                          *)
C11_LogoutIdempotent ==
    IsLogout
        => /\ result = ReturnedNone
           /\ active_session = None
           /\ active_badge = None
           /\ last_presence_time = 0
           /\ (pre.active_session = None) => SessionUntouched

(* C12: get_telemetry leaves active_session, active_badge and                *)
(* last_presence_time as they were at the call, in every state, also for an  *)
(* active session whose elapsed time already exceeds the timeout.            *)
C12_TelemetryReadOnly == IsTelemetry => SessionUntouched

C12_Witness ==
    /\ IsTelemetry
    /\ pre.active_session # None
    /\ PreElapsed > cfg.MAINTENANCE_TIMEOUT_SEC
    /\ active_session = pre.active_session
    /\ last_presence_time = pre.last_presence_time
    /\ result.telemetry.active

(* C13: the packet of get_telemetry has active = True exactly when           *)
(* active_session is present; in STANDBY time_left is 0; when active it      *)
(* carries the name of active_session, the active_badge and time_left =      *)
(* max(0, timeout - elapsed), which is never negative and never exceeds the  *)
(* timeout.                                                                  *)
C13_TelemetryMirrorsSession ==
    IsTelemetry
        => LET packet == result.telemetry
           IN  /\ packet.active = (pre.active_session # None)
               /\ (pre.active_session = None) => (packet.time_left = 0)
               /\ (pre.active_session # None) =>
                     /\ packet.tier = Unwrap(pre.active_session).name
                     /\ packet.badge = pre.active_badge
                     /\ packet.time_left
                           = Max(0, cfg.MAINTENANCE_TIMEOUT_SEC - PreElapsed)
                     /\ packet.time_left >= 0
                     /\ packet.time_left <= cfg.MAINTENANCE_TIMEOUT_SEC

HasPrefix(s, prefix) ==
    /\ Len(s) >= Len(prefix)
    /\ \A k \in 1..Len(prefix) : s[k] = prefix[k]

PrefixTier(badge) ==
    IF HasPrefix(badge, <<"A", "R", "C", "H">>) THEN TIER_3
    ELSE IF HasPrefix(badge, <<"M", "A", "I", "N", "T">>) THEN TIER_2
    ELSE TIER_1

(* C14: whenever a session is active, active_badge is a key of the directory *)
(* and active_session is Admin if the badge starts with ARCH, otherwise      *)
(* Maintenance if it starts with MAINT, otherwise Standard, whatever role    *)
(* label the directory gives the badge; ARCH-001, MAINT-900 and OP-7721 map  *)
(* to Admin, Maintenance and Standard.                                       *)
C14_TierFollowsPrefix ==
    /\ TierForBadge(BADGE_ARCH) = TIER_3
    /\ TierForBadge(BADGE_MAINT) = TIER_2
    /\ TierForBadge(BADGE_OP) = TIER_1
    /\ (active_session # None) =>
          \E key \in DOMAIN cfg.auth_cache :
              /\ active_badge = Some(key)
              /\ active_session = Some(PrefixTier(key))

\* A badge the directory labels "Senior Architect" holds a Standard session.
C14_Witness ==
    /\ BADGE_GHOST \in DOMAIN cfg.auth_cache
    /\ cfg.auth_cache[BADGE_GHOST] = "Senior Architect"
    /\ active_badge = Some(BADGE_GHOST)
    /\ active_session = Some(TIER_1)

(* C15: in every reachable state active_session is None if and only if       *)
(* active_badge is None.                                                     *)
C15_SessionRecordConsistent == (active_session = None) <=> (active_badge = None)

C15_Witness ==
    /\ IsLogout
    /\ pre.active_session # None
    /\ pre.active_badge # None
    /\ active_session = None
    /\ active_badge = None

(* C16: in every reachable state with an active session, last_presence_time  *)
(* is at most the current monotonic time, so the elapsed time is never       *)
(* negative.                                                                 *)
C16_TimestampNotInFuture ==
    (active_session # None) => (last_presence_time <= now)

\* The elapsed time a maintenance_pulse step computes, seen from its start state.
ElapsedSeen(operator_present) ==
    IF operator_present THEN 0 ELSE now - last_presence_time

(* C17: the session starts in STANDBY; STANDBY becomes OVERRIDE_ACTIVE only  *)
(* by a granted request_override; OVERRIDE_ACTIVE becomes STANDBY only by    *)
(* secure_logout or by a maintenance_pulse that sees elapsed > timeout; the  *)
(* passage of time, denied or faulting requests, get_telemetry and           *)
(* non-expiring pulses never change which of the two states holds.           *)
C17_LifecycleTransitions ==
    /\ Standby
    /\ [][/\ (Standby /\ ~Standby') =>
                (call'.op = "request_override" /\ result' = Returned(TRUE))
          /\ (~Standby /\ Standby') =>
                \/ call'.op = "secure_logout"
                \/ /\ call'.op = "maintenance_pulse"
                   /\ ElapsedSeen(call'.operator_present)
                         > cfg.MAINTENANCE_TIMEOUT_SEC
                   /\ result' = PulseResult(FALSE, MSG_EMERGENCY)
          /\ (\/ now' # now
              \/ /\ call' # call \/ pre' # pre
                 /\ \/ call'.op = "get_telemetry"
                    \/ /\ call'.op = "maintenance_pulse"
                       /\ ElapsedSeen(call'.operator_present)
                             <= cfg.MAINTENANCE_TIMEOUT_SEC
                    \/ /\ call'.op = "request_override"
                       /\ result' # Returned(TRUE))
                => (Standby' <=> Standby)]_vars

\* A denied request arrives while a session is past its timeout; it stays.
C17_Witness ==
    /\ IsRequest
    /\ result = Returned(FALSE)
    /\ pre.active_session # None
    /\ PreElapsed > cfg.MAINTENANCE_TIMEOUT_SEC
    /\ active_session # None

(* C18: from STANDBY, after any history (expiry, logout, denied requests), a *)
(* request_override with a known badge and a recognized intent is granted    *)
(* and starts a session whose last_presence_time is the clock at the call,   *)
(* whatever timestamp or clearance earlier sessions left.                    *)
C18_StandbyReenterable ==
    /\ (IsRequest /\ ArgsPresent /\ TwoFactor /\ pre.active_session = None)
          => /\ result = Returned(TRUE)
             /\ active_session # None
             /\ last_presence_time = pre.now
    /\ (FailedPulse \/ IsLogout) =>
          \A key \in DOMAIN cfg.auth_cache :
              ENABLED (/\ request_override(Some(key), Some(INTENT_CHECK))
                       /\ result' = Returned(TRUE)
                       /\ active_badge' = Some(key)
                       /\ last_presence_time' = now)

C18_Witness ==
    /\ IsRequest
    /\ result = Returned(TRUE)
    /\ pre.active_session = None
    /\ pre.last_presence_time = 0
    /\ pre.now > cfg.MAINTENANCE_TIMEOUT_SEC
    /\ last_presence_time = pre.now

(* C20: a maintenance_pulse(False) on an active session with elapsed <=      *)
(* timeout leaves active_session, active_badge and last_presence_time        *)
(* unchanged, so the expiry instant depends only on the last confirmed       *)
(* presence, not on the absent pulses in between.                            *)
C20_AbsentPulsePureCheck ==
    [][(/\ maintenance_pulse(FALSE)
        /\ active_session # None
        /\ now - last_presence_time <= cfg.MAINTENANCE_TIMEOUT_SEC)
          => /\ UNCHANGED session
             /\ result'.success]_vars

C20_Witness ==
    /\ IsPulse /\ ~call.operator_present
    /\ pre.active_session # None
    /\ PreElapsed > 0
    /\ PreElapsed < cfg.MAINTENANCE_TIMEOUT_SEC
    /\ SessionUntouched
    /\ PulseStillActive

IsTelemetryPacket(r) == "telemetry" \in DOMAIN r

InMutation(t) ==
    threads[t].pc \in {"ro_session", "ro_badge", "ro_time", "ro_log",
                       "mp_refresh", "mp_elapsed",
                       "sl_session", "sl_badge", "sl_time"}

MutationsExclusive ==
    \A t, u \in Threads : (InMutation(t) /\ InMutation(u)) => (t = u)

RecordConsistentBetweenCalls ==
    (\A t \in Threads : ~InMutation(t))
        => ((active_session = None) <=> (active_badge = None))

TelemetryNeverHalfWritten ==
    \A t \in Threads :
        /\ threads[t].ret # Raised("AttributeError")
        /\ (IsTelemetryPacket(threads[t].ret) /\ threads[t].ret.telemetry.active)
              => /\ threads[t].ret.telemetry.badge # None
                 /\ threads[t].ret.telemetry.tier # "N/A"

EmergencyOnlyForTimedOutSession ==
    \A t \in Threads :
        (threads[t].ret = PulseResult(FALSE, MSG_EMERGENCY)) => ~threads[t].stale

(* C19: with request_override, maintenance_pulse and secure_logout called    *)
(* from several threads, the calls are serialized (at most one thread is     *)
(* inside one of them at a time): between calls no reachable state has       *)
(* active_session present with active_badge absent or the reverse, a         *)
(* concurrent get_telemetry never returns a half-written session, and no     *)
(* pulse reports the EMERGENCY timeout for a session that a concurrent       *)
(* logout had already ended when the elapsed time was computed.              *)
C19_MutationsSerialized ==
    /\ MutationsExclusive
    /\ RecordConsistentBetweenCalls
    /\ TelemetryNeverHalfWritten
    /\ EmergencyOnlyForTimedOutSession

=============================================================================
